---- MODULE Spec2Model ----
(***************************************************************************)
(* The job portal of src/app.py as a state machine: the three tables       *)
(* (User, Job, Application), the upload folder, the session cookie of a    *)
(* browser, the requests that are between their existence check and their  *)
(* commit, and the response of the last request.                           *)
(*                                                                         *)
(* Text that the code takes apart (user names, company names, file names)  *)
(* is a sequence of one-character strings; text that the code only stores  *)
(* and compares (emails, passwords, titles) is a string.                   *)
(***************************************************************************)
EXTENDS Integers, Sequences, FiniteSets, Bags, TLC

VARIABLES
    users,          \* the User table: a set of rows
    jobs,           \* the Job table
    applications,   \* the Application table
    files,          \* UPLOAD_FOLDER: stored file name -> the bytes saved last
    session,        \* the user id in the browser's session cookie, NULL if none
    registering,    \* register requests past line 113, not yet committed (a bag)
    applying,       \* apply_job requests past line 308, not yet committed (a bag)
    now,            \* the clock datetime.utcnow reads
    resp            \* the last request handled and its response

vars == <<users, jobs, applications, files, session, registering, applying, now, resp>>


-----------------------------------------------------------------------------
(* Bounds of the model *)

MaxUserId == 3      \* the largest user id handed out
MaxJobId == 2       \* the largest job id handed out
MaxApplicationId == 2   \* the largest application id handed out
MaxClock == 4       \* the last reading of the clock
MaxInflight == 2    \* requests between their check and their commit at once

-----------------------------------------------------------------------------
(* Values *)

\* A nullable foreign key that holds no id; also the session without a user id.
NULL == 0

T_Admin == <<"A", "d", "m", "i", "n">>
T_al == <<"a", "l">>
T_bo == <<"b", "o">>
T_Acme == <<"A", "c", "m", "e">>

F_PDF == <<"r", ".", "P", "D", "F">>
F_exe == <<"r", ".", "e", "x", "e">>
F_pdf_exe == <<"r", ".", "p", "d", "f", ".", "e", "x", "e">>
F_noext == <<"p", "d", "f">>
F_missing == <<"x", ".", "p", "d", "f">>

Max(S) == CHOOSE x \in S : \A y \in S : y <= x
-----------------------------------------------------------------------------
(* Text *)

Uppers == <<"A", "B", "C", "D", "E", "F", "G", "H", "I", "J", "K", "L", "M",
            "N", "O", "P", "Q", "R", "S", "T", "U", "V", "W", "X", "Y", "Z">>
Lowers == <<"a", "b", "c", "d", "e", "f", "g", "h", "i", "j", "k", "l", "m",
            "n", "o", "p", "q", "r", "s", "t", "u", "v", "w", "x", "y", "z">>
Digits == {"0", "1", "2", "3", "4", "5", "6", "7", "8", "9"}
Range(s) == {s[i] : i \in DOMAIN s}

\* str.lower() on one character and on a text.
LowerChar(c) ==
    IF \E i \in DOMAIN Uppers : Uppers[i] = c
    THEN Lowers[CHOOSE i \in DOMAIN Uppers : Uppers[i] = c]
    ELSE c
Lower(s) == [i \in 1..Len(s) |-> LowerChar(s[i])]

\* The index of the last c in s, 0 when s holds none.
LastIndex(s, c) ==
    IF \E i \in DOMAIN s : s[i] = c
    THEN Max({i \in DOMAIN s : s[i] = c})
    ELSE 0

ALLOWED_EXTENSIONS == {<<"p", "d", "f">>, <<"d", "o", "c">>, <<"d", "o", "c", "x">>}

\* filename.rsplit('.', 1)[1]: what follows the last '.'.
Extension(filename) == SubSeq(filename, LastIndex(filename, ".") + 1, Len(filename))

\* allowed_file with split('.') in place of rsplit('.', 1): the extension taken
\* is what follows the first '.', up to the next one.
allowed_file_FirstDot(filename) ==
    /\ "." \in Range(filename)
    /\ LET first == CHOOSE i \in DOMAIN filename :
                        filename[i] = "." /\ \A k \in 1..(i - 1) : filename[k] # "."
           rest == SubSeq(filename, first + 1, Len(filename))
           stop == IF "." \in Range(rest)
                   THEN (CHOOSE i \in DOMAIN rest :
                            rest[i] = "." /\ \A k \in 1..(i - 1) : rest[k] # ".") - 1
                   ELSE Len(rest)
       IN Lower(SubSeq(rest, 1, stop)) \in ALLOWED_EXTENSIONS

allowed_file(filename) ==
    /\ "." \in Range(filename)
    /\ Lower(Extension(filename)) \in ALLOWED_EXTENSIONS

\* s with every character outside keep removed.
RECURSIVE Filter(_, _)
Filter(s, keep) ==
    IF s = <<>> THEN <<>>
    ELSE IF Head(s) \in keep
         THEN <<Head(s)>> \o Filter(Tail(s), keep)
         ELSE Filter(Tail(s), keep)

\* "_".join(s.split()): runs of whitespace become one "_", those at the ends go.
RECURSIVE JoinWords(_, _, _)
JoinWords(s, started, gap) ==
    IF s = <<>> THEN <<>>
    ELSE IF Head(s) = " "
         THEN JoinWords(Tail(s), started, started)
         ELSE (IF gap THEN <<"_">> ELSE <<>>) \o <<Head(s)>>
              \o JoinWords(Tail(s), TRUE, FALSE)

\* s.strip(chars)
RECURSIVE LStrip(_, _)
LStrip(s, chars) ==
    IF s # <<>> /\ Head(s) \in chars THEN LStrip(Tail(s), chars) ELSE s
RECURSIVE RStrip(_, _)
RStrip(s, chars) ==
    IF s # <<>> /\ s[Len(s)] \in chars
    THEN RStrip(SubSeq(s, 1, Len(s) - 1), chars)
    ELSE s
Strip(s, chars) == RStrip(LStrip(s, chars), chars)

FilenameChars == Range(Uppers) \cup Range(Lowers) \cup Digits \cup {"_", ".", "-"}

\* werkzeug.utils.secure_filename on ASCII text, on a POSIX host: the path
\* separator becomes a space, whitespace runs become "_", every character
\* outside [A-Za-z0-9_.-] is dropped, leading and trailing "." and "_" go.
secure_filename(s) ==
    LET spaced == [i \in 1..Len(s) |-> IF s[i] = "/" THEN " " ELSE s[i]]
    IN Strip(Filter(JoinWords(spaced, FALSE, FALSE), FilenameChars), {".", "_"})

\* secure_filename(f"{username}_{company}_{filename}")
StoredName(username, company, filename) ==
    secure_filename(username \o <<"_">> \o company \o <<"_">> \o filename)

\* generate_password_hash and check_password_hash, as what they decide.
generate_password_hash(password) == <<"hash", password>>
check_password_hash(pwhash, password) == pwhash = <<"hash", password>>

-----------------------------------------------------------------------------
(* The tables *)

\* An INTEGER PRIMARY KEY of SQLite: one more than the largest id in the table.
NextId(table) == IF table = {} THEN 1 ELSE Max({r.id : r \in table}) + 1

HasUser(id) == \E u \in users : u.id = id
UserById(id) == CHOOSE u \in users : u.id = id
HasJob(id) == \E j \in jobs : j.id = id
JobById(id) == CHOOSE j \in jobs : j.id = id

\* Flask-Login's current_user: load_user on the session's user id.
IsAuthenticated == session # NULL /\ HasUser(session)
CurrentUser == UserById(session)

Inflight == BagCardinality(registering) + BagCardinality(applying)

\* The response of a request: the route, what it answered, and what it sent:
\* the job ids of the two lists of a dashboard, the bytes of a download.
NoResp ==
    [op |-> "none", outcome |-> "none", applied |-> <<>>, listed |-> <<>>,
     content |-> <<>>]
Resp(op, outcome) == [NoResp EXCEPT !.op = op, !.outcome = outcome]

\* create_db: the tables hold the default admin alone.
Init ==
    /\ users = { [id |-> 1, username |-> T_Admin, email |-> "admin@example.com",
                  password_hash |-> generate_password_hash("admin123"),
                  role |-> "admin"] }
    /\ jobs = {}
    /\ applications = {}
    /\ files = [n \in {} |-> <<>>]
    /\ session = NULL
    /\ registering = EmptyBag
    /\ applying = EmptyBag
    /\ now = 0
    /\ resp = NoResp

-----------------------------------------------------------------------------
(* register, login, logout *)

\* User.query.filter_by(email=email).first()
user_exists(email) == \E u \in users : u.email = email

\* The User table with unique=True on username alone.
UserInsertRejected_UsernameOnly(row) ==
    \E u \in users : u.username = row.username

\* The unique=True of User.username and User.email: the INSERT of a row
\* raises IntegrityError when either value is already in the table.
UserInsertRejected(row) ==
    \E u \in users : u.username = row.username \/ u.email = row.email

\* The row lines 115-117 build from the form.
NewUser(form) ==
    [id |-> NextId(users), username |-> form.username, email |-> form.email,
     password_hash |-> generate_password_hash(form.password), role |-> form.role]

\* The POST of register: first up to its existence check (lines 101-113); a
\* request that passes is in flight, beside any other request, ...
RegisterCheck(form) ==
    LET out == IF IsAuthenticated THEN "RedirectIndex"
               ELSE IF user_exists(form.email) THEN "DuplicateEmail"
               ELSE "InFlight"
    IN /\ out = "InFlight" => Inflight < MaxInflight
       /\ registering' = IF out = "InFlight"
                         THEN registering (+) SetToBag({form})
                         ELSE registering
       /\ resp' = Resp("register", out)
       /\ UNCHANGED <<users, jobs, applications, files, session, applying, now>>

\* ... until the INSERT and its commit (lines 115-120).
RegisterCommit(form) ==
    LET out == IF UserInsertRejected(NewUser(form)) THEN "ServerError"
               ELSE "Registered"
    IN /\ BagIn(form, registering)
       /\ out = "Registered" => NextId(users) <= MaxUserId
       /\ registering' = registering (-) SetToBag({form})
       /\ users' = IF out = "Registered" THEN users \cup {NewUser(form)} ELSE users
       /\ resp' = Resp("register_commit", out)
       /\ UNCHANGED <<jobs, applications, files, session, applying, now>>

login(email, password) ==
    LET found == {u \in users : u.email = email}
        ok == /\ found # {}
              /\ \A u \in found : check_password_hash(u.password_hash, password)
        out == IF IsAuthenticated THEN "RedirectIndex"
               ELSE IF ok THEN "LoggedIn"
               ELSE "InvalidCredentials"
    IN /\ session' = IF out = "LoggedIn"
                     THEN (CHOOSE u \in found : TRUE).id
                     ELSE session
       /\ resp' = Resp("login", out)
       /\ UNCHANGED <<users, jobs, applications, files, registering, applying, now>>

logout ==
    LET out == IF IsAuthenticated THEN "LoggedOut" ELSE "LoginRequired"
    IN /\ session' = IF out = "LoggedOut" THEN NULL ELSE session
       /\ resp' = Resp("logout", out)
       /\ UNCHANGED <<users, jobs, applications, files, registering, applying, now>>

-----------------------------------------------------------------------------
(* Jobs *)

\* Job.query.order_by(Job.timestamp.desc()) over a set of rows, as their ids.
RECURSIVE ByTimestampDesc(_)
ByTimestampDesc(rows) ==
    IF rows = {} THEN <<>>
    ELSE LET first == CHOOSE r \in rows :
                        \A q \in rows : q.timestamp < r.timestamp
                                        \/ (q.timestamp = r.timestamp /\ q.id >= r.id)
         IN <<first.id>> \o ByTimestampDesc(rows \ {first})

\* Rows in the order of their ids (a scan of the table), as a sequence.
RECURSIVE ById(_)
ById(rows) ==
    IF rows = {} THEN <<>>
    ELSE LET first == CHOOSE r \in rows : \A q \in rows : r.id <= q.id
         IN <<first>> \o ById(rows \ {first})

\* current_user.applications: the rows whose job_seeker_id is the user's id.
ApplicationsOf(uid) == ById({a \in applications : a.job_seeker_id = uid})

\* app.job is a Job row, not None: the application's job_id names one.
HasJobOf(a) == a.job_id # NULL /\ HasJob(a.job_id)

\* Line 162: the jobs whose id is not among applied_job_ids, newest first.
OtherJobs(applied_job_ids) ==
    ByTimestampDesc({j \in jobs : j.id \notin Range(applied_job_ids)})

dashboard ==
    LET u == CurrentUser
        mine == ApplicationsOf(u.id)
        applied_job_ids == [i \in DOMAIN mine |-> mine[i].job_id]
        own == ById({j \in jobs : j.employer_id = u.id})
        out == IF ~IsAuthenticated THEN "LoginRequired"
               ELSE IF u.role = "employer" \/ u.role = "admin" THEN "Jobs"
               ELSE IF \E i \in DOMAIN mine : ~HasJobOf(mine[i]) THEN "ServerError"
               ELSE "AppliedAndAll"
    IN /\ resp' = [Resp("dashboard", out) EXCEPT
            !.applied = IF out = "AppliedAndAll" THEN applied_job_ids ELSE <<>>,
            !.listed =
                IF out = "Jobs"
                THEN IF u.role = "employer"
                     THEN [i \in DOMAIN own |-> own[i].id]
                     ELSE ByTimestampDesc(jobs)
                ELSE IF out = "AppliedAndAll" THEN OtherJobs(applied_job_ids)
                ELSE <<>>]
       /\ UNCHANGED <<users, jobs, applications, files, session, registering,
                      applying, now>>

\* The POST of job_form.
job_form(form) ==
    LET u == CurrentUser
        out == IF ~IsAuthenticated THEN "LoginRequired"
               ELSE IF u.role \notin {"employer", "admin"} THEN "Forbidden"
               ELSE "JobPosted"
        new_job == [id |-> NextId(jobs), title |-> form.title,
                    description |-> form.description, salary |-> form.salary,
                    location |-> form.location, company |-> form.company,
                    timestamp |-> now, employer_id |-> u.id]
    IN /\ out = "JobPosted" => now < MaxClock /\ NextId(jobs) <= MaxJobId
       /\ jobs' = IF out = "JobPosted" THEN jobs \cup {new_job} ELSE jobs
       /\ now' = IF out = "JobPosted" THEN now + 1 ELSE now
       /\ resp' = Resp("job_form", out)
       /\ UNCHANGED <<users, applications, files, session, registering, applying>>

\* The check with the role alone: any employer passes, owner or not.
NotOwnerNorAdmin_AnyEmployer(u, job) == u.role \notin {"admin", "employer"}

\* Lines 217 and 331: the caller is neither the job's employer nor an admin.
NotOwnerNorAdmin(u, job) == u.id # job.employer_id /\ u.role # "admin"

\* The POST of edit_job.
edit_job(job_id, form) ==
    LET u == CurrentUser
        job == JobById(job_id)
        out == IF ~IsAuthenticated THEN "LoginRequired"
               ELSE IF ~HasJob(job_id) THEN "NotFound"
               ELSE IF NotOwnerNorAdmin(u, job) THEN "Forbidden"
               ELSE "JobUpdated"
        edited == [job EXCEPT !.title = form.title,
                              !.description = form.description,
                              !.salary = form.salary,
                              !.location = form.location,
                              !.company = form.company]
    IN /\ jobs' = IF out = "JobUpdated" THEN (jobs \ {job}) \cup {edited} ELSE jobs
       /\ resp' = Resp("edit_job", out)
       /\ UNCHANGED <<users, applications, files, session, registering,
                      applying, now>>

\* Lines 340 and 353: the admin routes turn away every caller but an admin.
NotAdmin(u) == u.role # "admin"

\* db.session.delete(job): the relationship Job.applications has the default
\* cascade ("save-update, merge"), so the rows it holds are kept and their
\* job_id is set to NULL.
ApplicationsAfterJobDelete(job_id) ==
    {[a EXCEPT !.job_id = IF a.job_id = job_id THEN NULL ELSE a.job_id] :
        a \in applications}

delete_job(job_id) ==
    LET u == CurrentUser
        out == IF ~IsAuthenticated THEN "LoginRequired"
               ELSE IF NotAdmin(u) THEN "Forbidden"
               ELSE IF ~HasJob(job_id) THEN "NotFound"
               ELSE "JobDeleted"
    IN /\ jobs' = IF out = "JobDeleted" THEN jobs \ {JobById(job_id)} ELSE jobs
       /\ applications' = IF out = "JobDeleted"
                          THEN ApplicationsAfterJobDelete(job_id)
                          ELSE applications
       /\ resp' = Resp("delete_job", out)
       /\ UNCHANGED <<users, files, session, registering, applying, now>>

\* db.session.delete(user): User.jobs_posted and User.applications have the
\* default cascade too: the user's jobs and applications are kept, their
\* employer_id and job_seeker_id set to NULL.
JobsAfterUserDelete(user_id) ==
    {[j EXCEPT !.employer_id = IF j.employer_id = user_id THEN NULL
                               ELSE j.employer_id] : j \in jobs}
ApplicationsAfterUserDelete(user_id) ==
    {[a EXCEPT !.job_seeker_id = IF a.job_seeker_id = user_id THEN NULL
                                 ELSE a.job_seeker_id] : a \in applications}

delete_user(user_id) ==
    LET u == CurrentUser
        out == IF ~IsAuthenticated THEN "LoginRequired"
               ELSE IF NotAdmin(u) THEN "Forbidden"
               ELSE IF ~HasUser(user_id) THEN "NotFound"
               ELSE "UserDeleted"
    IN /\ users' = IF out = "UserDeleted" THEN users \ {UserById(user_id)} ELSE users
       /\ jobs' = IF out = "UserDeleted" THEN JobsAfterUserDelete(user_id) ELSE jobs
       /\ applications' = IF out = "UserDeleted"
                          THEN ApplicationsAfterUserDelete(user_id)
                          ELSE applications
       /\ resp' = Resp("delete_user", out)
       /\ UNCHANGED <<files, session, registering, applying, now>>

-----------------------------------------------------------------------------
(* Applications and resumes *)

\* Application.query.filter_by(job_id=job_id, job_seeker_id=current_user.id).first()
existing_application(job_id, uid) ==
    \E a \in applications : a.job_id = job_id /\ a.job_seeker_id = uid

\* file.save(os.path.join(UPLOAD_FOLDER, filename)): the file of that name is
\* created, or replaced when there is one.
Saved(name, bytes) ==
    [n \in DOMAIN files \cup {name} |-> IF n = name THEN bytes ELSE files[n]]

\* Lines 282-306: what apply_job answers before it saves anything, "Accepted"
\* when it goes on to save. part.present: the form holds a 'resume' part.
ApplyOutcome(job_id, part) ==
    IF ~IsAuthenticated THEN "LoginRequired"
    ELSE IF CurrentUser.role # "job_seeker" THEN "Forbidden"
    ELSE IF ~HasJob(job_id) THEN "NotFound"
    ELSE IF existing_application(job_id, CurrentUser.id) THEN "AlreadyApplied"
    ELSE IF ~part.present THEN "NoFilePart"
    ELSE IF part.filename = <<>> THEN "EmptyFilename"
    ELSE IF allowed_file(part.filename) THEN "Accepted"
    ELSE "UnsupportedType"

\* What lines 307-316 take from the request: the caller's row as loaded, the
\* job and the name the upload is stored under.
ApplyRequest(job_id, part) ==
    [user_id |-> CurrentUser.id, username |-> CurrentUser.username,
     email |-> CurrentUser.email, job_id |-> job_id,
     resume_filename |-> StoredName(CurrentUser.username,
                                    JobById(job_id).company, part.filename)]

\* The row lines 310-316 build. SQLite checks no foreign key on the INSERT,
\* and the table has no unique constraint.
NewApplication(req) ==
    [id |-> NextId(applications), applicant_name |-> req.username,
     applicant_email |-> req.email, resume_filename |-> req.resume_filename,
     timestamp |-> now, job_id |-> req.job_id, job_seeker_id |-> req.user_id]

\* The bytes of an upload, named after the applicant and the job they are for.
Upload(req) == <<req.user_id, req.job_id>>

\* apply_job, run with no other request in between.
apply_job(job_id, part) ==
    LET pre == ApplyOutcome(job_id, part)
        out == IF pre = "Accepted" THEN "Applied" ELSE pre
        req == ApplyRequest(job_id, part)
    IN /\ out = "Applied" => now < MaxClock /\ NextId(applications) <= MaxApplicationId
       /\ files' = IF out = "Applied" THEN Saved(req.resume_filename, Upload(req))
                   ELSE files
       /\ applications' = IF out = "Applied"
                          THEN applications \cup {NewApplication(req)}
                          ELSE applications
       /\ now' = IF out = "Applied" THEN now + 1 ELSE now
       /\ resp' = Resp("apply_job", out)
       /\ UNCHANGED <<users, jobs, session, registering, applying>>

\* apply_job beside other requests: first through its existence check and the
\* save of the upload (lines 282-308); a request that saved is in flight ...
ApplyCheck(job_id, part) ==
    LET pre == ApplyOutcome(job_id, part)
        out == IF pre = "Accepted" THEN "InFlight" ELSE pre
        req == ApplyRequest(job_id, part)
    IN /\ out = "InFlight" => Inflight < MaxInflight
       /\ files' = IF out = "InFlight" THEN Saved(req.resume_filename, Upload(req))
                   ELSE files
       /\ applying' = IF out = "InFlight" THEN applying (+) SetToBag({req})
                      ELSE applying
       /\ resp' = Resp("apply_job", out)
       /\ UNCHANGED <<users, jobs, applications, session, registering, now>>

\* ... until the INSERT and its commit (lines 310-319).
ApplyCommit(req) ==
    /\ BagIn(req, applying)
    /\ now < MaxClock /\ NextId(applications) <= MaxApplicationId
    /\ applying' = applying (-) SetToBag({req})
    /\ applications' = applications \cup {NewApplication(req)}
    /\ now' = now + 1
    /\ resp' = Resp("apply_job_commit", "Applied")
    /\ UNCHANGED <<users, jobs, files, session, registering>>

\* Application.query.filter_by(resume_filename=filename).first(): the first
\* row of a scan of the table.
FirstApplicationNamed(filename) ==
    ById({a \in applications : a.resume_filename = filename})[1]

download_resume(filename) ==
    LET u == CurrentUser
        application == FirstApplicationNamed(filename)
        out == IF ~IsAuthenticated THEN "LoginRequired"
               ELSE IF \A a \in applications : a.resume_filename # filename
               THEN "NotFound"
               ELSE IF ~HasJobOf(application) THEN "ServerError"
               ELSE IF NotOwnerNorAdmin(u, JobById(application.job_id))
               THEN "Forbidden"
               ELSE IF filename \in DOMAIN files THEN "Sent"
               ELSE "NotFound"
    IN /\ resp' = [Resp("download_resume", out) EXCEPT
                     !.content = IF out = "Sent" THEN files[filename] ELSE <<>>]
       /\ UNCHANGED <<users, jobs, applications, files, session, registering,
                      applying, now>>

-----------------------------------------------------------------------------
(* The specifications *)

\* What the requests of the model submit.
Form_al == [username |-> T_al, email |-> "a@x.com", password |-> "pw",
            role |-> "job_seeker"]
Form_bo == [username |-> T_bo, email |-> "b@x.com", password |-> "pw",
            role |-> "employer"]
RegisterForms ==
    { Form_al, Form_bo,
      [username |-> T_al, email |-> "b@x.com", password |-> "pw",
       role |-> "employer"],
      [username |-> T_bo, email |-> "a@x.com", password |-> "pw",
       role |-> "admin"] }
Logins ==
    { <<"admin@example.com", "admin123">>, <<"a@x.com", "pw">>,
      <<"b@x.com", "pw">>, <<"b@x.com", "admin123">> }
JobForms ==
    { [title |-> "Eng", description |-> "d1", salary |-> "100k",
       location |-> "NY", company |-> T_Acme],
      [title |-> "Ops", description |-> "d2", salary |-> "",
       location |-> "SF", company |-> T_Acme] }
Uploads == {<<>>, F_PDF, F_exe, F_pdf_exe, F_noext}
UploadParts ==
    {[present |-> FALSE, filename |-> <<>>]}
    \cup {[present |-> TRUE, filename |-> f] : f \in Uploads}

\* The ids a request names: those of the rows there are, and one of no row.
UserIds == {u.id : u \in users} \cup {NextId(users)}
JobIds == {j.id : j \in jobs} \cup {NextId(jobs)}
Filenames == DOMAIN files \cup {F_missing}

\* The portal once al, a job seeker, and bo, an employer, have registered
\* (SpecAccounts reaches this User table from Init).
Staffed ==
    /\ users = { [id |-> 1, username |-> T_Admin, email |-> "admin@example.com",
                  password_hash |-> generate_password_hash("admin123"),
                  role |-> "admin"],
                 [id |-> 2, username |-> T_al, email |-> "a@x.com",
                  password_hash |-> generate_password_hash("pw"),
                  role |-> "job_seeker"],
                 [id |-> 3, username |-> T_bo, email |-> "b@x.com",
                  password_hash |-> generate_password_hash("pw"),
                  role |-> "employer"] }
    /\ jobs = {}
    /\ applications = {}
    /\ files = [n \in {} |-> <<>>]
    /\ session = NULL
    /\ registering = EmptyBag
    /\ applying = EmptyBag
    /\ now = 0
    /\ resp = NoResp

\* Requests handled one after the other.
Next ==
    \/ \E l \in Logins : login(l[1], l[2])
    \/ logout
    \/ dashboard
    \/ \E f \in JobForms : job_form(f)
    \/ \E j \in JobIds, f \in JobForms : edit_job(j, f)
    \/ \E j \in JobIds : delete_job(j)
    \/ \E id \in UserIds : delete_user(id)
    \/ \E j \in JobIds, part \in UploadParts : apply_job(j, part)
    \/ \E n \in Filenames : download_resume(n)

Spec == Staffed /\ [][Next]_vars

\* Registrations beside each other, from the tables create_db leaves.
NextAccounts ==
    \/ \E f \in RegisterForms : RegisterCheck(f)
    \/ \E f \in BagToSet(registering) : RegisterCommit(f)
    \/ \E l \in Logins : login(l[1], l[2])
    \/ logout
    \/ \E id \in UserIds : delete_user(id)

SpecAccounts == Init /\ [][NextAccounts]_vars

\* Applications beside each other.
NextApplying ==
    \/ \E l \in Logins : login(l[1], l[2])
    \/ logout
    \/ \E f \in JobForms : job_form(f)
    \/ \E j \in JobIds, part \in UploadParts : ApplyCheck(j, part)
    \/ \E req \in BagToSet(applying) : ApplyCommit(req)

SpecApplying == Staffed /\ [][NextApplying]_vars

-----------------------------------------------------------------------------
(* The claims *)

ExistingJobIds == {j.id : j \in jobs}
ExistingUserIds == {u.id : u \in users}

\* C1: for every (job, job seeker) pair at most one Application row has that
\* job_id and job_seeker_id, also when two apply_job requests of the pair
\* run beside each other.
C1_AtMostOneApplication ==
    \A a, b \in applications :
        (a.job_id # NULL /\ a.job_seeker_id # NULL
         /\ a.job_id = b.job_id /\ a.job_seeker_id = b.job_seeker_id) => a = b

\* C2: an edit_job POST and a delete_job POST on a job by an authenticated
\* caller who is no admin and not the job's employer are answered Forbidden
\* and leave the job's row as it was.
C2_StrangerRejected ==
    [][\A j \in ExistingJobIds, f \in JobForms :
          (/\ IsAuthenticated
           /\ CurrentUser.role # "admin"
           /\ CurrentUser.id # JobById(j).employer_id
           /\ (edit_job(j, f) \/ delete_job(j)))
          => (resp'.outcome = "Forbidden" /\ JobById(j) \in jobs')]_vars

C2_Witness ==
    /\ resp.op = "edit_job" /\ resp.outcome = "Forbidden"
    /\ IsAuthenticated /\ CurrentUser.role = "employer"
    /\ \E j \in jobs : j.employer_id # CurrentUser.id
    /\ \E j \in jobs : j.employer_id = CurrentUser.id

\* The applications that hold a file name, and the callers the claim C3 lets
\* have the file.
ApplicationsNamed(n) == {a \in applications : a.resume_filename = n}
MayDownload(n) ==
    \/ CurrentUser.role = "admin"
    \/ \E a \in ApplicationsNamed(n) :
          HasJobOf(a) /\ JobById(a.job_id).employer_id = CurrentUser.id

\* C3: download_resume by an authenticated caller answers NotFound when no
\* Application has the file name; otherwise it sends the file exactly when
\* the caller is an admin or the employer of the job of the Application that
\* stored it, and answers Forbidden, with no content, to anyone else.
C3_DownloadByOwnership ==
    [][\A n \in Filenames :
          (IsAuthenticated /\ download_resume(n))
          => IF ApplicationsNamed(n) = {} THEN resp'.outcome = "NotFound"
             ELSE IF MayDownload(n)
                  THEN resp'.outcome = "Sent" /\ resp'.content = files[n]
                  ELSE resp'.outcome = "Forbidden" /\ resp'.content = <<>>]_vars

UniqueEmails == \A u, v \in users : u.email = v.email => u = v

\* C4, for any caller: a register POST with an email a User row holds is
\* answered DuplicateEmail and leaves the User table as it was; no two User
\* rows share an email.
C4_AnyCaller ==
    /\ [][\A f \in RegisterForms :
             (user_exists(f.email) /\ RegisterCheck(f))
             => (resp'.outcome = "DuplicateEmail" /\ users' = users)]_vars
    /\ []UniqueEmails

\* C4, for an anonymous caller: a register POST by an anonymous caller with
\* an email a User row holds is answered DuplicateEmail and leaves the User
\* table as it was; no two User rows share an email.
C4_AnonymousCaller ==
    /\ [][\A f \in RegisterForms :
             (~IsAuthenticated /\ user_exists(f.email) /\ RegisterCheck(f))
             => (resp'.outcome = "DuplicateEmail" /\ users' = users)]_vars
    /\ []UniqueEmails

C4_Witness ==
    /\ resp.op = "register" /\ resp.outcome = "DuplicateEmail"
    /\ ~IsAuthenticated
    /\ Cardinality(users) >= 2

\* C5: once delete_user(u) by an admin has succeeded, no Job that u owned as
\* employer and no Application that u made as job seeker is in the tables.
C5_DeleteUserCascades ==
    [][\A id \in ExistingUserIds :
          (delete_user(id) /\ resp'.outcome = "UserDeleted")
          => /\ \A j \in jobs : j.employer_id = id
                                => \A k \in jobs' : k.id # j.id
             /\ \A a \in applications : a.job_seeker_id = id
                                => \A b \in applications' : b.id # a.id]_vars

\* C6: once delete_job(j) by an admin has succeeded, no Application made for
\* j is in the table; every Application row names a Job row there is.
C6_DeleteJobCascades ==
    /\ [][\A j \in ExistingJobIds :
             (delete_job(j) /\ resp'.outcome = "JobDeleted")
             => \A a \in applications : a.job_id = j
                                => \A b \in applications' : b.id # a.id]_vars
    /\ [](\A a \in applications : HasJobOf(a))

\* The file names C7 is about: no extension, or one (what follows the last
\* '.', compared without case) outside pdf, doc, docx.
BadExtension(filename) ==
    \/ \A i \in DOMAIN filename : filename[i] # "."
    \/ Lower(Extension(filename)) \notin
          {<<"p", "d", "f">>, <<"d", "o", "c">>, <<"d", "o", "c", "x">>}
BadParts == {part \in UploadParts : part.present /\ BadExtension(part.filename)}

C8_DistinctResumeFilenames ==
    \A a, b \in applications : a.resume_filename = b.resume_filename => a = b

\* The jobs a user has an Application for.
AppliedJobIds(uid) ==
    {j.id : j \in {k \in jobs : \E a \in applications :
                                   a.job_seeker_id = uid /\ a.job_id = k.id}}

\* C9: the dashboard of a logged-in job seeker sends two lists that split the
\* jobs there are: the jobs the seeker has an Application for, and all others.
C9_DashboardPartitions ==
    (resp.op = "dashboard" /\ IsAuthenticated /\ CurrentUser.role = "job_seeker")
    => /\ resp.outcome = "AppliedAndAll"
       /\ Range(resp.applied) = AppliedJobIds(CurrentUser.id)
       /\ Range(resp.listed) = ExistingJobIds \ AppliedJobIds(CurrentUser.id)

\* C10: a register POST by an anonymous caller whose email no User
\* row holds succeeds and creates one User row with the username, email and
\* role of the form.
C10_EmailFree ==
    [][\A f \in BagToSet(registering) :
          (~user_exists(f.email) /\ RegisterCommit(f))
          => /\ resp'.outcome = "Registered"
             /\ \E u \in users' \ users :
                   /\ users' = users \cup {u}
                   /\ u.username = f.username /\ u.email = f.email
                   /\ u.role = f.role]_vars

====
